---- MODULE Spec2Model ----
(***************************************************************************)
(* hilbert_curve (src/src/lib.rs): the two mappings between a distance d   *)
(* along the Hilbert curve and the cell (x, y) of an n by n grid, and the  *)
(* helper rotate they share.                                               *)
(*                                                                         *)
(* All values are usize.  The model keeps the width: usize has W bits, and *)
(* every arithmetic operator of the source is modelled with its overflow   *)
(* behaviour.  `-`, `+` and `*` panic on overflow when the crate is built  *)
(* with overflow checks (the dev and test profiles) and wrap modulo 2^W    *)
(* when it is built without (the release profile); which one is a choice   *)
(* of the build, so the model leaves it open (overflow_checks).            *)
(* wrapping_sub wraps in every build.                                      *)
(***************************************************************************)
EXTENDS Integers, Naturals, Sequences, FiniteSets, TLC

\* Width of usize in bits (64 or 32 on the real targets).
W == 6

RECURSIVE Pow2(_)
Pow2(k) == IF k = 0 THEN 1 ELSE 2 * Pow2(k - 1)

Modulus == Pow2(W)
MaxUsize == Modulus - 1
Usize == 0 .. MaxUsize

\* a & b and a ^ b on usize.
RECURSIVE BitAnd(_, _)
BitAnd(a, b) ==
    IF a = 0 \/ b = 0 THEN 0
    ELSE (a % 2) * (b % 2) + 2 * BitAnd(a \div 2, b \div 2)

RECURSIVE BitXor(_, _)
BitXor(a, b) ==
    IF a = 0 THEN b
    ELSE IF b = 0 THEN a
    ELSE ((a + b) % 2) + 2 * BitXor(a \div 2, b \div 2)

\* usize::wrapping_sub
wrapping_sub(a, b) == (a + Modulus - b) % Modulus

\* The operators -, + and * of usize: the value modulo 2^W, and whether the
\* exact result is out of range (a panic with overflow checks on).
usize_sub(a, b) == [v |-> (a + Modulus - b) % Modulus, ovf |-> a < b]
usize_add(a, b) == [v |-> (a + b) % Modulus, ovf |-> a + b > MaxUsize]
usize_mul(a, b) == [v |-> (a * b) % Modulus, ovf |-> a * b > MaxUsize]

\* assert!((n & (n - 1)) == 0, "n must be a power of 2"): "overflow" when
\* n - 1 panics, "assert" when the assertion fails, "none" when it passes.
assert_power_of_2(n, oc) ==
    LET m == usize_sub(n, 1)
    IN  IF oc /\ m.ovf THEN "overflow"
        ELSE IF BitAnd(n, m.v) = 0 THEN "none"
        ELSE "assert"

\* rotate with `*y = n - 1 - *x` written for `*y = n - 1 - *y`, x already
\* reflected.
rotate_reflect_typo(n_sub, x, y, rx, ry) ==
    IF ry = 0
    THEN IF rx = 1
         THEN LET x1 == wrapping_sub(wrapping_sub(n_sub, 1), x)
              IN  <<wrapping_sub(wrapping_sub(n_sub, 1), x1), x1>>
         ELSE <<y, x>>
    ELSE <<x, y>>

\* rotate without its reflection.
rotate_no_reflect(n_sub, x, y, rx, ry) ==
    IF ry = 0 THEN <<y, x>> ELSE <<x, y>>

\* rotate without its swap.
rotate_no_swap(n_sub, x, y, rx, ry) ==
    IF ry = 0 /\ rx = 1
    THEN <<wrapping_sub(wrapping_sub(n_sub, 1), x),
           wrapping_sub(wrapping_sub(n_sub, 1), y)>>
    ELSE <<x, y>>

\* rotate with saturating_sub for wrapping_sub.
rotate_saturating(n_sub, x, y, rx, ry) ==
    LET sat(a, b) == IF a < b THEN 0 ELSE a - b
    IN  IF ry = 0
        THEN IF rx = 1
             THEN <<sat(sat(n_sub, 1), y), sat(sat(n_sub, 1), x)>>
             ELSE <<y, x>>
        ELSE <<x, y>>

\* fn rotate(n, x, y, rx, ry): the new <<x, y>>.
rotate(n_sub, x, y, rx, ry) ==
    IF ry = 0
    THEN IF rx = 1
         THEN <<wrapping_sub(wrapping_sub(n_sub, 1), y),
                wrapping_sub(wrapping_sub(n_sub, 1), x)>>
         ELSE <<y, x>>
    ELSE <<x, y>>

\* body_1d_to_2d with ry = 1 & t, the ^ rx left out.
body_1d_to_2d_ry_no_xor(f) ==
    LET rx == BitAnd(1, f.t \div 2)
        ry == BitAnd(1, f.t)
        r  == rotate(f.s, f.x, f.y, rx, ry)
        mx == usize_mul(f.s, rx)
        ax == usize_add(r[1], mx.v)
        my == usize_mul(f.s, ry)
        ay == usize_add(r[2], my.v)
        ms == usize_mul(f.s, 2)
    IN  [s |-> ms.v, t |-> f.t \div 4, x |-> ax.v, y |-> ay.v,
         rx |-> rx, ry |-> ry,
         rot |-> [n |-> f.s, x |-> f.x, y |-> f.y, rx |-> rx, ry |-> ry],
         ovf |-> mx.ovf \/ ax.ovf \/ my.ovf \/ ay.ovf \/ ms.ovf]

\* body_1d_to_2d with rotate called after x += s * rx and y += s * ry.
body_1d_to_2d_rotate_late(f) ==
    LET rx == BitAnd(1, f.t \div 2)
        ry == BitAnd(1, BitXor(f.t, rx))
        mx == usize_mul(f.s, rx)
        ax == usize_add(f.x, mx.v)
        my == usize_mul(f.s, ry)
        ay == usize_add(f.y, my.v)
        r  == rotate(f.s, ax.v, ay.v, rx, ry)
        ms == usize_mul(f.s, 2)
    IN  [s |-> ms.v, t |-> f.t \div 4, x |-> r[1], y |-> r[2],
         rx |-> rx, ry |-> ry,
         rot |-> [n |-> f.s, x |-> ax.v, y |-> ay.v, rx |-> rx, ry |-> ry],
         ovf |-> mx.ovf \/ ax.ovf \/ my.ovf \/ ay.ovf \/ ms.ovf]

\* One iteration of the loop of convert_1d_to_2d on the locals f = [s, t, x, y]:
\* the locals after it, the arguments rotate was called with, and whether an
\* operator overflowed.
body_1d_to_2d(f) ==
    LET rx == BitAnd(1, f.t \div 2)
        ry == BitAnd(1, BitXor(f.t, rx))
        r  == rotate(f.s, f.x, f.y, rx, ry)
        mx == usize_mul(f.s, rx)
        ax == usize_add(r[1], mx.v)
        my == usize_mul(f.s, ry)
        ay == usize_add(r[2], my.v)
        ms == usize_mul(f.s, 2)
    IN  [s |-> ms.v, t |-> f.t \div 4, x |-> ax.v, y |-> ay.v,
         rx |-> rx, ry |-> ry,
         rot |-> [n |-> f.s, x |-> f.x, y |-> f.y, rx |-> rx, ry |-> ry],
         ovf |-> mx.ovf \/ ax.ovf \/ my.ovf \/ ay.ovf \/ ms.ovf]

\* body_2d_to_1d with (3 * rx) + ry for (3 * rx) ^ ry.
body_2d_to_1d_plus(f) ==
    LET rx == IF BitAnd(f.x, f.s) > 0 THEN 1 ELSE 0
        ry == IF BitAnd(f.y, f.s) > 0 THEN 1 ELSE 0
        ss == usize_mul(f.s, f.s)
        m3 == usize_mul(3, rx)
        q  == usize_mul(ss.v, m3.v + ry)
        ad == usize_add(f.d, q.v)
        r  == rotate(f.s, f.x, f.y, rx, ry)
    IN  [s |-> f.s \div 2, x |-> r[1], y |-> r[2], d |-> ad.v,
         rx |-> rx, ry |-> ry,
         rot |-> [n |-> f.s, x |-> f.x, y |-> f.y, rx |-> rx, ry |-> ry],
         ovf |-> ss.ovf \/ m3.ovf \/ q.ovf \/ ad.ovf]

\* One iteration of the loop of convert_2d_to_1d on the locals f = [s, x, y, d].
body_2d_to_1d(f) ==
    LET rx == IF BitAnd(f.x, f.s) > 0 THEN 1 ELSE 0
        ry == IF BitAnd(f.y, f.s) > 0 THEN 1 ELSE 0
        ss == usize_mul(f.s, f.s)
        m3 == usize_mul(3, rx)
        q  == usize_mul(ss.v, BitXor(m3.v, ry))
        ad == usize_add(f.d, q.v)
        r  == rotate(f.s, f.x, f.y, rx, ry)
    IN  [s |-> f.s \div 2, x |-> r[1], y |-> r[2], d |-> ad.v,
         rx |-> rx, ry |-> ry,
         rot |-> [n |-> f.s, x |-> f.x, y |-> f.y, rx |-> rx, ry |-> ry],
         ovf |-> ss.ovf \/ m3.ovf \/ q.ovf \/ ad.ovf]

\* The loop of convert_1d_to_2d run to its end from the locals f with it
\* iterations done.
RECURSIVE loop_1d_to_2d(_, _, _, _)
loop_1d_to_2d(f, n, oc, it) ==
    IF f.s < n
    THEN LET g == body_1d_to_2d(f)
         IN  IF oc /\ g.ovf THEN [panic |-> "overflow", iters |-> it]
             ELSE loop_1d_to_2d(g, n, oc, it + 1)
    ELSE [panic |-> "none", iters |-> it, x |-> f.x, y |-> f.y]

\* pub fn convert_1d_to_2d(d, n): [panic, iters, x, y].
convert_1d_to_2d(d, n, oc) ==
    LET a == assert_power_of_2(n, oc)
    IN  IF a # "none" THEN [panic |-> a, iters |-> 0]
        ELSE loop_1d_to_2d([s |-> 1, t |-> d, x |-> 0, y |-> 0], n, oc, 0)

RECURSIVE loop_2d_to_1d(_, _, _)
loop_2d_to_1d(f, oc, it) ==
    IF f.s > 0
    THEN LET g == body_2d_to_1d(f)
         IN  IF oc /\ g.ovf THEN [panic |-> "overflow", iters |-> it]
             ELSE loop_2d_to_1d(g, oc, it + 1)
    ELSE [panic |-> "none", iters |-> it, d |-> f.d]

\* pub fn convert_2d_to_1d(x, y, n): [panic, iters, d].
convert_2d_to_1d(x, y, n, oc) ==
    LET a == assert_power_of_2(n, oc)
    IN  IF a # "none" THEN [panic |-> a, iters |-> 0]
        ELSE loop_2d_to_1d([s |-> n \div 2, x |-> x, y |-> y, d |-> 0], oc, 0)

VARIABLES
    overflow_checks, \* the build: TRUE when -, + and * panic on overflow
    pc,              \* "idle", "loop", "returned", "panicked"
    fn,              \* the function called
    panic,           \* "none", "assert" (the assertion), "overflow"
    n,               \* the argument n
    arg_d, arg_x, arg_y, \* the arguments d, x, y of a call past its assertion
    s, t, x, y, d,   \* the locals (x, y shadow the arguments in 2d_to_1d)
    rx, ry,
    rot,             \* the arguments of the latest call of rotate
    iters,           \* loop iterations done
    from_test        \* the call is the second call of tests::reversibility

vars == <<overflow_checks, pc, fn, panic, n, arg_d, arg_x, arg_y,
          s, t, x, y, d, rx, ry, rot, iters, from_test>>

NoRot == [n |-> 0, x |-> 0, y |-> 0, rx |-> 0, ry |-> 1]

Init ==
    /\ overflow_checks \in BOOLEAN
    /\ pc = "idle"
    /\ fn = "none"
    /\ panic = "none"
    /\ n = 0 /\ arg_d = 0 /\ arg_x = 0 /\ arg_y = 0
    /\ s = 0 /\ t = 0 /\ x = 0 /\ y = 0 /\ d = 0
    /\ rx = 0 /\ ry = 0
    /\ rot = NoRot
    /\ iters = 0
    /\ from_test = FALSE

\* lines 12-17: the call of convert_1d_to_2d(dd, nn) up to its loop.
Enter_1d_to_2d(dd, nn) ==
    LET a == assert_power_of_2(nn, overflow_checks)
    IN  /\ fn' = "convert_1d_to_2d"
        /\ n' = nn
        /\ panic' = a
        /\ IF a = "none"
           THEN /\ pc' = "loop"
                /\ arg_d' = dd
                /\ s' = 1 /\ t' = dd /\ x' = 0 /\ y' = 0
           ELSE /\ pc' = "panicked"
                /\ UNCHANGED <<arg_d, s, t, x, y>>
        /\ UNCHANGED <<overflow_checks, arg_x, arg_y, d, rx, ry, rot, iters>>

Call_1d_to_2d ==
    /\ pc = "idle"
    /\ \E dd \in Usize, nn \in Usize : Enter_1d_to_2d(dd, nn)
    /\ UNCHANGED from_test

\* Loop_1d_to_2d with `while s <= n` for `while s < n`.
Loop_1d_to_2d_le ==
    /\ pc = "loop" /\ fn = "convert_1d_to_2d"
    /\ s <= n
    /\ LET g == body_1d_to_2d([s |-> s, t |-> t, x |-> x, y |-> y])
       IN  /\ rx' = g.rx /\ ry' = g.ry /\ rot' = g.rot
           /\ IF overflow_checks /\ g.ovf
              THEN /\ pc' = "panicked" /\ panic' = "overflow"
                   /\ UNCHANGED <<s, t, x, y, iters>>
              ELSE /\ s' = g.s /\ t' = g.t /\ x' = g.x /\ y' = g.y
                   /\ iters' = iters + 1
                   /\ UNCHANGED <<pc, panic>>
    /\ UNCHANGED <<overflow_checks, fn, n, arg_d, arg_x, arg_y, d, from_test>>

\* lines 19-27: one iteration of the loop.
Loop_1d_to_2d ==
    /\ pc = "loop" /\ fn = "convert_1d_to_2d"
    /\ s < n
    /\ LET g == body_1d_to_2d([s |-> s, t |-> t, x |-> x, y |-> y])
       IN  /\ rx' = g.rx /\ ry' = g.ry /\ rot' = g.rot
           /\ IF overflow_checks /\ g.ovf
              THEN /\ pc' = "panicked" /\ panic' = "overflow"
                   /\ UNCHANGED <<s, t, x, y, iters>>
              ELSE /\ s' = g.s /\ t' = g.t /\ x' = g.x /\ y' = g.y
                   /\ iters' = iters + 1
                   /\ UNCHANGED <<pc, panic>>
    /\ UNCHANGED <<overflow_checks, fn, n, arg_d, arg_x, arg_y, d, from_test>>

\* line 29: (x, y) is returned.
Return_1d_to_2d ==
    /\ pc = "loop" /\ fn = "convert_1d_to_2d"
    /\ ~(s < n)
    /\ pc' = "returned"
    /\ UNCHANGED <<overflow_checks, fn, panic, n, arg_d, arg_x, arg_y,
                   s, t, x, y, d, rx, ry, rot, iters, from_test>>

\* lines 33-38: the call of convert_2d_to_1d(xx, yy, nn) up to its loop.
Enter_2d_to_1d(xx, yy, nn) ==
    LET a == assert_power_of_2(nn, overflow_checks)
    IN  /\ fn' = "convert_2d_to_1d"
        /\ n' = nn
        /\ panic' = a
        /\ IF a = "none"
           THEN /\ pc' = "loop"
                /\ arg_x' = xx /\ arg_y' = yy
                /\ d' = 0 /\ s' = nn \div 2 /\ x' = xx /\ y' = yy
           ELSE /\ pc' = "panicked"
                /\ UNCHANGED <<arg_x, arg_y, d, s, x, y>>
        /\ rot' = NoRot /\ iters' = 0 /\ rx' = 0 /\ ry' = 0 /\ t' = 0
        /\ UNCHANGED <<overflow_checks, arg_d>>

Call_2d_to_1d ==
    /\ pc = "idle"
    /\ \E xx \in Usize, yy \in Usize, nn \in Usize : Enter_2d_to_1d(xx, yy, nn)
    /\ UNCHANGED from_test

\* lines 40-46: one iteration of the loop.
Loop_2d_to_1d ==
    /\ pc = "loop" /\ fn = "convert_2d_to_1d"
    /\ s > 0
    /\ LET g == body_2d_to_1d([s |-> s, x |-> x, y |-> y, d |-> d])
       IN  /\ rx' = g.rx /\ ry' = g.ry
           /\ IF overflow_checks /\ g.ovf
              THEN \* line 43 panics: rotate is not called
                   /\ pc' = "panicked" /\ panic' = "overflow"
                   /\ UNCHANGED <<s, x, y, d, iters, rot>>
              ELSE /\ s' = g.s /\ x' = g.x /\ y' = g.y /\ d' = g.d
                   /\ rot' = g.rot
                   /\ iters' = iters + 1
                   /\ UNCHANGED <<pc, panic>>
    /\ UNCHANGED <<overflow_checks, fn, n, arg_d, arg_x, arg_y, t, from_test>>

\* line 48: d is returned.
Return_2d_to_1d ==
    /\ pc = "loop" /\ fn = "convert_2d_to_1d"
    /\ ~(s > 0)
    /\ pc' = "returned"
    /\ UNCHANGED <<overflow_checks, fn, panic, n, arg_d, arg_x, arg_y,
                   s, t, x, y, d, rx, ry, rot, iters, from_test>>

\* tests::reversibility, lines 71-72: convert_2d_to_1d is called with the
\* pair convert_1d_to_2d(d, n) returned, for d in 0..n*n.
Reversibility ==
    /\ pc = "returned" /\ fn = "convert_1d_to_2d"
    /\ arg_d < n * n
    /\ Enter_2d_to_1d(x, y, n)
    /\ from_test' = TRUE

Next ==
    \/ Call_1d_to_2d
    \/ Loop_1d_to_2d
    \/ Return_1d_to_2d
    \/ Reversibility
    \/ Call_2d_to_1d
    \/ Loop_2d_to_1d
    \/ Return_2d_to_1d

Spec == Init /\ [][Next]_vars

(***************************************************************************)
(* Vocabulary of the properties.                                           *)
(***************************************************************************)

\* v is 2^k for some k >= 0 (as a number, not by the bit trick of the code).
IsPowerOfTwo(v) == \E k \in 0 .. W - 1 : v = Pow2(k)

\* The k with v = 2^k.
Log2(v) == CHOOSE k \in 0 .. W - 1 : v = Pow2(k)

\* Every distance of the n by n grid, 0 .. n*n - 1, is a usize.
GridFits(v) == v * v - 1 <= MaxUsize

Abs(v) == IF v < 0 THEN -v ELSE v

Forward == fn = "convert_1d_to_2d"
Inverse == fn = "convert_2d_to_1d"
Returned == pc = "returned"

\* convert_1d_to_2d(dd, nn) in the build of the state, as a pair, or <<>>
\* when the call panics.
Cell(dd, nn) ==
    LET r == convert_1d_to_2d(dd, nn, overflow_checks)
    IN  IF r.panic = "none" THEN <<r.x, r.y>> ELSE <<>>

\* convert_2d_to_1d(xx, yy, nn) in the build of the state, or -1 when the
\* call panics.
Distance(xx, yy, nn) ==
    LET r == convert_2d_to_1d(xx, yy, nn, overflow_checks)
    IN  IF r.panic = "none" THEN r.d ELSE -1

\* The latest call of rotate took the reflection branch.
Reflected == rot.ry = 0 /\ rot.rx = 1

(***************************************************************************)
(* C1: round trip.                                                         *)
(***************************************************************************)

\* C1 as stated: for every power-of-two n >= 1 and every d < n*n,
\* convert_2d_to_1d(convert_1d_to_2d(d, n), n) returns d.
C1_RoundTrip_AnyN ==
    (from_test /\ IsPowerOfTwo(n) /\ arg_d < n * n)
        => /\ pc # "panicked"
           /\ Returned => d = arg_d

\* C1 amended: the round trip returns d for every power-of-two n >= 1 whose
\* n*n - 1 is a usize, and every d < n*n.
C1_RoundTrip ==
    (from_test /\ IsPowerOfTwo(n) /\ GridFits(n) /\ arg_d < n * n)
        => /\ pc # "panicked"
           /\ Returned => d = arg_d

C1_Witness ==
    /\ from_test /\ Returned /\ overflow_checks
    /\ n = Pow2(W \div 2) /\ arg_d = n * n - 1 /\ d = arg_d

(***************************************************************************)
(* C2: convert_1d_to_2d is a bijection from 0 .. n*n-1 onto the grid.      *)
(***************************************************************************)

\* C2: for a power-of-two n, the pair returned for d < n*n lies in the grid
\* and is returned for no other distance; when all of 0 .. n*n-1 can be
\* passed, every cell of the grid is returned for some distance.
C2_Permutation ==
    (Forward /\ Returned /\ IsPowerOfTwo(n) /\ arg_d < n * n)
        => /\ x < n /\ y < n
           /\ \A d2 \in Usize :
                (d2 < n * n /\ d2 # arg_d) => Cell(d2, n) # <<x, y>>
           /\ (GridFits(n) /\ arg_d = 0)
                => \A cx \in 0 .. n - 1, cy \in 0 .. n - 1 :
                     \E d2 \in 0 .. n * n - 1 : Cell(d2, n) = <<cx, cy>>

C2_Witness ==
    /\ Forward /\ Returned /\ n = Pow2(W \div 2) /\ arg_d = n * n - 1
    /\ <<x, y>> = Cell(arg_d, n)

(***************************************************************************)
(* C3: locality.                                                           *)
(***************************************************************************)

\* C3: for a power-of-two n >= 2 and d + 1 < n*n, the cells of d and d + 1
\* are edge-adjacent.
C3_Locality ==
    (Forward /\ Returned /\ IsPowerOfTwo(n) /\ n >= 2
       /\ arg_d + 1 < n * n /\ arg_d + 1 <= MaxUsize)
        => LET c == Cell(arg_d + 1, n)
           IN  /\ c # <<>>
               /\ Abs(x - c[1]) + Abs(y - c[2]) = 1

\* A step between two quadrants of the whole grid.
C3_Witness ==
    /\ Forward /\ Returned /\ n = Pow2(W \div 2)
    /\ arg_d = (n * n) \div 2 - 1
    /\ Cell(arg_d + 1, n) = <<x + 1, y>>

(***************************************************************************)
(* C4: a call with an n that is no power of two aborts.                    *)
(***************************************************************************)

\* C4 as stated: for every n that is not 2^k (0 included), both functions
\* abort at the start of the call and never return a value.
C4_PreconditionEnforced ==
    (fn # "none" /\ ~IsPowerOfTwo(n))
        => pc = "panicked" /\ panic \in {"assert", "overflow"} /\ iters = 0

(***************************************************************************)
(* C5: the ends of the curve.                                              *)
(***************************************************************************)

\* C5 as stated: for every power-of-two n >= 1, convert_1d_to_2d(0, n) is
\* (0, 0), convert_2d_to_1d(0, 0, n) is 0 and convert_1d_to_2d(n*n - 1, n)
\* is (n - 1, 0).
C5_Endpoints_AnyN ==
    IsPowerOfTwo(n)
        => /\ (Forward /\ arg_d = 0) =>
                pc # "panicked" /\ (Returned => x = 0 /\ y = 0)
           /\ (Forward /\ arg_d = n * n - 1) =>
                pc # "panicked" /\ (Returned => x = n - 1 /\ y = 0)
           /\ (Inverse /\ arg_x = 0 /\ arg_y = 0) =>
                pc # "panicked" /\ (Returned => d = 0)

\* C5 amended: the same for every power-of-two n >= 1 whose n*n - 1 is a
\* usize.
C5_Endpoints ==
    (IsPowerOfTwo(n) /\ GridFits(n))
        => /\ (Forward /\ arg_d = 0) =>
                pc # "panicked" /\ (Returned => x = 0 /\ y = 0)
           /\ (Forward /\ arg_d = n * n - 1) =>
                pc # "panicked" /\ (Returned => x = n - 1 /\ y = 0)
           /\ (Inverse /\ arg_x = 0 /\ arg_y = 0) =>
                pc # "panicked" /\ (Returned => d = 0)

C5_Witness ==
    /\ Forward /\ Returned /\ n = Pow2(W \div 2) /\ arg_d = n * n - 1
    /\ x = n - 1 /\ y = 0
    /\ Distance(0, 0, n) = 0

(***************************************************************************)
(* C6: the first four cells for n = 4.                                     *)
(***************************************************************************)

\* C6 as stated: for n = 4 the distances 0, 1, 2, 3 map to (0,0), (0,1),
\* (1,1), (1,0).
C6_Table_AsStated ==
    (Forward /\ Returned /\ n = 4)
        => /\ arg_d = 0 => <<x, y>> = <<0, 0>>
           /\ arg_d = 1 => <<x, y>> = <<0, 1>>
           /\ arg_d = 2 => <<x, y>> = <<1, 1>>
           /\ arg_d = 3 => <<x, y>> = <<1, 0>>

\* C6 amended: for n = 4 the distances 0, 1, 2, 3 map to (0,0), (1,0),
\* (1,1), (0,1).
C6_Table ==
    (Forward /\ Returned /\ n = 4)
        => /\ arg_d = 0 => <<x, y>> = <<0, 0>>
           /\ arg_d = 1 => <<x, y>> = <<1, 0>>
           /\ arg_d = 2 => <<x, y>> = <<1, 1>>
           /\ arg_d = 3 => <<x, y>> = <<0, 1>>

C6_Witness ==
    Forward /\ Returned /\ n = 4 /\ arg_d = 3 /\ <<x, y>> = <<0, 1>>

(***************************************************************************)
(* C7: coordinates out of the grid.                                        *)
(***************************************************************************)

\* C7 as stated: for every power-of-two n >= 1 and all usize x and y,
\* convert_2d_to_1d(x, y, n) does not abort, returns a value of
\* 0 .. n*n - 1, and that value is convert_2d_to_1d(x mod n, y mod n, n).
C7_OutOfRange_AnyN ==
    (Inverse /\ IsPowerOfTwo(n))
        => /\ pc # "panicked"
           /\ Returned => /\ d <= n * n - 1
                          /\ d = Distance(arg_x % n, arg_y % n, n)

\* C7 amended: the same for every power-of-two n >= 1 whose n*n - 1 is a
\* usize.
C7_OutOfRange ==
    (Inverse /\ IsPowerOfTwo(n) /\ GridFits(n))
        => /\ pc # "panicked"
           /\ Returned => /\ d <= n * n - 1
                          /\ d = Distance(arg_x % n, arg_y % n, n)

C7_Witness ==
    /\ Inverse /\ Returned /\ ~from_test /\ n = Pow2(W \div 2)
    /\ arg_x = MaxUsize /\ arg_y = n
    /\ d = n * n - 1

(***************************************************************************)
(* C8: the reflection of rotate and wraparound.                            *)
(***************************************************************************)

\* The arguments of the call are those the functions document.
ValidArgs ==
    /\ IsPowerOfTwo(n)
    /\ Forward => arg_d < n * n
    /\ Inverse => arg_x < n /\ arg_y < n

\* C8 as stated: in every call of rotate by either function with valid
\* arguments, the reflection branch is taken only with x < n_sub and
\* y < n_sub, so neither subtraction wraps.
C8_NoWrap_AsStated ==
    (fn # "none" /\ pc # "panicked" /\ ValidArgs /\ Reflected)
        => rot.x < rot.n /\ rot.y < rot.n

\* C8 amended: that holds of the calls by convert_1d_to_2d; in the calls by
\* convert_2d_to_1d the reflection branch is taken only with x >= n_sub, so
\* (n_sub - 1) - x wraps there.
C8_NoWrap ==
    (fn # "none" /\ pc # "panicked" /\ ValidArgs /\ Reflected)
        => /\ Forward => rot.x < rot.n /\ rot.y < rot.n
           /\ Inverse => rot.x >= rot.n

C8_Witness ==
    /\ Forward /\ Returned /\ ValidArgs /\ Reflected
    /\ rot.n = n \div 2 /\ rot.n >= 2 /\ rot.x = rot.n - 1 /\ rot.y = 0

(***************************************************************************)
(* C9: the number of iterations.                                           *)
(***************************************************************************)

\* The loop of the function called goes on.
LoopCondition == IF Forward THEN s < n ELSE s > 0

\* C9 as stated: for every n = 2^k and valid arguments each loop does
\* exactly k iterations and the call returns; for n = 1 no iteration is
\* done and (0, 0), respectively 0, is returned.
C9_Iterations_AnyN ==
    (fn # "none" /\ ValidArgs)
        => /\ pc # "panicked"
           /\ pc = "loop" => (iters <= Log2(n) /\ (LoopCondition <=> iters < Log2(n)))
           /\ Returned => iters = Log2(n)
           /\ (Returned /\ n = 1) =>
                /\ iters = 0
                /\ Forward => x = 0 /\ y = 0
                /\ Inverse => d = 0

\* C9 amended: the same for every n = 2^k whose n*n - 1 is a usize.
C9_Iterations ==
    (fn # "none" /\ ValidArgs /\ GridFits(n))
        => /\ pc # "panicked"
           /\ pc = "loop" => (iters <= Log2(n) /\ (LoopCondition <=> iters < Log2(n)))
           /\ Returned => iters = Log2(n)
           /\ (Returned /\ n = 1) =>
                /\ iters = 0
                /\ Forward => x = 0 /\ y = 0
                /\ Inverse => d = 0

C9_Witness ==
    /\ Inverse /\ Returned /\ ~from_test /\ ValidArgs
    /\ n = Pow2(W \div 2) /\ iters = W \div 2 /\ iters >= 3

(***************************************************************************)
(* C10: the curve of the 2n grid starts with the transposed curve of the n *)
(* grid.                                                                   *)
(***************************************************************************)

\* C10: for a power-of-two n and d < n*n, convert_1d_to_2d(d, 2*n) is
\* (y, x) where (x, y) = convert_1d_to_2d(d, n).
C10_Transposed ==
    (Forward /\ Returned /\ IsPowerOfTwo(n) /\ arg_d < n * n
       /\ 2 * n <= MaxUsize)
        => Cell(arg_d, 2 * n) = <<y, x>>

\* A distance whose cell differs between the two grids.
C10_Witness ==
    /\ Forward /\ Returned /\ n = Pow2(W \div 2) /\ arg_d = n * n - 1
    /\ x # y /\ Cell(arg_d, 2 * n) = <<y, x>>

====
